---- MODULE Spec2Model ----
(***************************************************************************)
(* State-machine model of the function-explorer application:               *)
(*   App            (src/App.tsx 1-89)      view navigation                *)
(*   ProblemsView   (src/components/ProblemsView.tsx)  scenario catalog    *)
(*   SimulatorView  (src/App.tsx 90-480)    saved simulations              *)
(*                                                                         *)
(* Numbers are fixed-point hundredths (0.5 is 50, 30 is 3000), so that the *)
(* fractional parameters of the built-in scenarios are integers.           *)
(* A React event is one action: the handler, the re-render it causes       *)
(* (including the useMemo that resets the input value) and the effects     *)
(* that run after the commit (the localStorage write).                     *)
(***************************************************************************)
EXTENDS Integers, Sequences, FiniteSets, TLC

VARIABLES
    currentView,       \* App: currentView
    problems,          \* ProblemsView: problems
    activeId,          \* ProblemsView: activeId
    inputValue,        \* ProblemsView: inputValue
    showModal,         \* ProblemsView: showModal
    newProblem,        \* ProblemsView: newProblem (the draft of the create dialog)
    typeShown,         \* the dialog's <select>: the option it displays
    typed,             \* history: a parameter was typed since the dialog opened
    problemsStore,     \* localStorage['math_simulator_custom_problems']
    savedSimulations,  \* SimulatorView: savedSimulations
    simPending,        \* SimulatorView: state update queued by the load effect
    activeTab,         \* SimulatorView: activeTab
    linear,            \* SimulatorView: linear
    quadratic,         \* SimulatorView: quadratic
    exponential,       \* SimulatorView: exponential
    range,             \* SimulatorView: range
    simStore,          \* localStorage['math_sim_configs']
    clock,             \* the reading of Date.now()
    crashed,           \* an exception escaped a render: the React tree is gone
    lastOp             \* history: the operation that produced this state

vars == <<currentView, problems, activeId, inputValue, showModal, newProblem,
          typeShown, typed, problemsStore, savedSimulations, simPending, activeTab, linear,
          quadratic, exponential, range, simStore, clock, crashed, lastOp>>

problemsVars == <<problems, activeId, inputValue, showModal, newProblem,
                  typeShown, typed>>
simParams == <<activeTab, linear, quadratic, exponential, range>>
simVars == <<savedSimulations, simPending, simParams>>

-----------------------------------------------------------------------------
(* Bounds *)

MaxCustom == 2      \* custom scenarios in the catalog at one time
MaxClock == 1       \* largest clock reading
MaxDialogCustom == 1  \* custom scenarios created through the edited dialog
MaxSaved == 2       \* saved simulations in the list at one time

-----------------------------------------------------------------------------
(* localStorage and JSON *)

\* getItem of a key that was never written
NullItem == [kind |-> "null"]
\* the empty string
EmptyItem == [kind |-> "empty"]
\* a string that is not JSON
GarbageItem == [kind |-> "garbage"]

\* JSON.stringify of an array of records whose fields are all defined and finite
JSONstringify(list) == [kind |-> "json", value |-> list]

\* JSON.parse: ok = FALSE stands for the SyntaxError it throws
JSONparse(text) ==
    IF text.kind = "json" THEN [ok |-> TRUE, value |-> text.value]
                          ELSE [ok |-> FALSE, value |-> <<>>]

\* a string is truthy unless it is empty; null is falsy
TruthyItem(item) == item.kind \notin {"null", "empty"}

-----------------------------------------------------------------------------
(* Numbers that may be NaN: the fields of the draft *)

\* a number (hundredths)
Num(v) == [nan |-> FALSE, v |-> v]

\* NaN
NaN == [nan |-> TRUE, v |-> 0]

\* parseFloat(e.target.value) of a number input, for the texts typed here;
\* a cleared input has the value "" and parses to NaN
ParseFloat(text) ==
    CASE text = ""    -> NaN
      [] text = "0"   -> Num(0)
      [] text = "-2"  -> Num(-200)
      [] text = "2.5" -> Num(250)
      [] text = "-3"  -> Num(-300)

\* a number is truthy unless it is 0 or NaN
TruthyNumber(x) == ~x.nan /\ x.v # 0

-----------------------------------------------------------------------------
(* ProblemsView: constants *)

DEFAULT_PROBLEMS ==
    << [id |-> "car_rental",
        title |-> "Alquiler de Vehículos",
        type |-> "linear_comparison",
        description |-> "Comparación de costos entre dos compañías según la distancia.",
        isCustom |-> FALSE,
        params |-> [slope |-> 50, intercept |-> 4500, slope2 |-> 20, intercept2 |-> 6000],
        labels |-> [x |-> "Distancia (km)", y |-> "Costo ($)",
                    series1 |-> "Compañía A", series2 |-> "Compañía B"],
        range |-> [min |-> 0, max |-> 10000, step |-> 100, defaultVal |-> 3000]],
       [id |-> "snowball",
        title |-> "Bola de Nieve",
        type |-> "exponential_growth",
        description |-> "Crecimiento de peso de una bola de nieve al rodar (5% por seg).",
        isCustom |-> FALSE,
        params |-> [initial |-> 1000, base |-> 105],
        labels |-> [x |-> "Tiempo (s)", y |-> "Peso (kg)", series1 |-> "Peso"],
        range |-> [min |-> 0, max |-> 3000, step |-> 100, defaultVal |-> 500]],
       [id |-> "anesthesia",
        title |-> "Concentración Anestesia",
        type |-> "exponential_decay",
        description |-> "Eliminación de fármaco en sangre (5% por minuto).",
        isCustom |-> FALSE,
        params |-> [initial |-> 10000, base |-> 95],
        labels |-> [x |-> "Tiempo (min)", y |-> "Concentración (%)", series1 |-> "Nivel"],
        range |-> [min |-> 0, max |-> 6000, step |-> 100, defaultVal |-> 1000]] >>

\* useState initial values
InitialActiveId == "car_rental"

\* the option a newly rendered <select> of the dialog displays: its first
FirstOption == "linear_simple"

\* newProblem.type?.includes(word), for the option values of the <select>
TypeIncludes(ty, word) ==
    CASE word = "linear"      -> ty \in {"linear_simple", "linear_comparison"}
      [] word = "exponential" -> ty \in {"exponential_growth", "exponential_decay"}

\* the parameter inputs the dialog renders for a draft of type ty
VisibleParams(ty) ==
    (IF TypeIncludes(ty, "linear") THEN {"slope", "intercept"} ELSE {})
    \cup (IF ty = "linear_comparison" THEN {"slope2", "intercept2"} ELSE {})
    \cup (IF TypeIncludes(ty, "exponential") THEN {"initial", "base"} ELSE {})
InitialNewProblem ==
    [type |-> "linear_simple",
     range |-> [min |-> Num(0), max |-> Num(5000), step |-> Num(100),
                defaultVal |-> Num(1000)],
     labels |-> [x |-> "X", y |-> "Y", series1 |-> "Función"]]

-----------------------------------------------------------------------------
(* ProblemsView: pure parts *)

\* variant of CustomProblems: the filter is forgotten and every entry is kept
CustomProblems_All(ps) == ps

\* problems.filter(p => p.isCustom)
CustomProblems(ps) == SelectSeq(ps, LAMBDA p : p.isCustom)

\* variant of InitialProblems: JSON.parse is not guarded by try/catch
InitialProblems_NoCatch(saved) ==
    IF TruthyItem(saved)
    THEN [threw |-> ~JSONparse(saved).ok,
          value |-> DEFAULT_PROBLEMS \o JSONparse(saved).value]
    ELSE [threw |-> FALSE, value |-> DEFAULT_PROBLEMS]

\* variant of InitialProblems: the persisted entries are put first
InitialProblems_CustomFirst(saved) ==
    IF TruthyItem(saved) /\ JSONparse(saved).ok
    THEN [threw |-> FALSE, value |-> JSONparse(saved).value \o DEFAULT_PROBLEMS]
    ELSE [threw |-> FALSE, value |-> DEFAULT_PROBLEMS]

\* variant of InitialProblems: the saved item is ignored
InitialProblems_DefaultsOnly(saved) == [threw |-> FALSE, value |-> DEFAULT_PROBLEMS]

\* the useState initializer of problems; threw = TRUE stands for an
\* exception leaving the initializer, which the try/catch rules out
InitialProblems(saved) ==
    IF TruthyItem(saved) /\ JSONparse(saved).ok
    THEN [threw |-> FALSE, value |-> DEFAULT_PROBLEMS \o JSONparse(saved).value]
    ELSE [threw |-> FALSE, value |-> DEFAULT_PROBLEMS]

\* problems.find(p => p.id === id): the index of the first match, 0 for none
FindIndex(ps, id) ==
    IF \E i \in 1..Len(ps) : ps[i].id = id
    THEN CHOOSE i \in 1..Len(ps) :
            /\ ps[i].id = id
            /\ \A j \in 1..(i - 1) : ps[j].id # id
    ELSE 0

\* variant of ActiveProblem: the fallback is the last entry
ActiveProblem_Last(ps, aid) ==
    IF FindIndex(ps, aid) # 0 THEN ps[FindIndex(ps, aid)] ELSE ps[Len(ps)]

\* problems.find(p => p.id === activeId) || problems[0]   (ps non-empty)
ActiveProblem(ps, aid) ==
    IF FindIndex(ps, aid) # 0 THEN ps[FindIndex(ps, aid)] ELSE ps[1]

\* variant of RenderedInput: the input value is never reset
RenderedInput_Keep(ps, aid, ps2, aid2, input) == input

\* the useMemo on [activeProblem]: setInputValue(defaultVal) when the
\* active problem of the new render is another one than before
RenderedInput(ps, aid, ps2, aid2, input) ==
    IF ActiveProblem(ps2, aid2) = ActiveProblem(ps, aid)
    THEN input
    ELSE ActiveProblem(ps2, aid2).range.defaultVal

\* `custom_${Date.now()}`
CustomId(now) == "custom_" \o ToString(now)

\* variant of StringOr: no default
StringOr_NoDefault(r, f, dflt) ==
    IF f \in DOMAIN r THEN r[f] ELSE ""

\* s || dflt for an optional string field f of record r
StringOr(r, f, dflt) ==
    IF f \in DOMAIN r /\ r[f] # "" THEN r[f] ELSE dflt

\* Number(newProblem.params?.f || dflt)
ParamOr(d, f, dflt) ==
    IF "params" \in DOMAIN d /\ f \in DOMAIN d.params /\ TruthyNumber(d.params[f])
    THEN d.params[f].v ELSE dflt

\* Number(newProblem.range?.max || 50)
MaxOr(d, dflt) ==
    IF "range" \in DOMAIN d /\ TruthyNumber(d.range.max) THEN d.range.max.v ELSE dflt

\* the record handleAddProblem builds from the draft
MakeProblem(id, d) ==
    [id |-> id,
     title |-> StringOr(d, "title", "Nuevo Problema"),
     description |-> StringOr(d, "description", "Descripción del problema"),
     type |-> d.type,
     isCustom |-> TRUE,
     params |-> [slope |-> ParamOr(d, "slope", 100),
                 intercept |-> ParamOr(d, "intercept", 0),
                 base |-> ParamOr(d, "base", 110),
                 initial |-> ParamOr(d, "initial", 1000),
                 slope2 |-> ParamOr(d, "slope2", 100),
                 intercept2 |-> ParamOr(d, "intercept2", 0)],
     labels |-> [x |-> StringOr(d.labels, "x", "X"),
                 y |-> StringOr(d.labels, "y", "Y"),
                 series1 |-> StringOr(d.labels, "series1", "Serie 1"),
                 series2 |-> StringOr(d.labels, "series2", "Serie 2")],
     range |-> [min |-> 0, max |-> MaxOr(d, 5000), step |-> 100, defaultVal |-> 0]]

\* variant of AddedProblems: the new entry is put first
AddedProblems_Prepend(ps, p) == <<p>> \o ps

\* [...problems, p]
AddedProblems(ps, p) == Append(ps, p)

\* variant of DeletedProblems: the kept entries come out in reverse order
DeletedProblems_Reversed(ps, id) ==
    LET kept == SelectSeq(ps, LAMBDA p : p.id # id)
    IN [i \in 1..Len(kept) |-> kept[Len(kept) + 1 - i]]

\* problems.filter(p => p.id !== id)
DeletedProblems(ps, id) == SelectSeq(ps, LAMBDA p : p.id # id)

\* variant of ActiveAfterDelete: the selection is left on the deleted id
ActiveAfterDelete_Keep(newDocs, aid, id) == aid

\* variant of ActiveAfterDelete: the selection falls back to the last entry
ActiveAfterDelete_Last(newDocs, aid, id) ==
    IF aid = id THEN newDocs[Len(newDocs)].id ELSE aid

\* if (activeId === id) setActiveId(newDocs[0].id)   (newDocs non-empty)
ActiveAfterDelete(newDocs, aid, id) ==
    IF aid = id THEN newDocs[1].id ELSE aid

-----------------------------------------------------------------------------
(* ProblemsView: the sampler of the active scenario *)

\* Math.round(x * 100) / 100, on hundredths
Round2(x) == (2 * x + 1) \div 2

\* params.f || dflt, for a parameter that may be absent
FieldOr(params, f, dflt) ==
    IF f \in DOMAIN params /\ params[f] # 0 THEN params[f] ELSE dflt

\* a number (hundredths) as a y value
NumY(v) == [t |-> "num", v |-> v]

\* n + m * x
LinearY(n, m, x) == NumY(n + (m * x) \div 100)

\* k * Math.pow(b, x), b # 0: Math.pow is NaN for a negative base with a
\* fractional exponent and a number otherwise, kept as the power it is
PowY(k, b, x) ==
    IF b < 0 /\ x % 100 # 0
    THEN [t |-> "NaN"]
    ELSE [t |-> "pow", k |-> k, base |-> b, x |-> x]

\* val1 of scenario p at x
Val1(p, x) ==
    CASE p.type \in {"linear_comparison", "linear_simple"} ->
            LinearY(FieldOr(p.params, "intercept", 0), FieldOr(p.params, "slope", 0), x)
      [] p.type \in {"exponential_growth", "exponential_decay"} ->
            PowY(FieldOr(p.params, "initial", 100), FieldOr(p.params, "base", 100), x)
      [] OTHER -> NumY(0)

\* val2 of the sampler for scenario p at x
Val2(p, x) ==
    IF p.type = "linear_comparison"
    THEN LinearY(FieldOr(p.params, "intercept2", 0), FieldOr(p.params, "slope2", 0), x)
    ELSE [t |-> "undefined"]

\* the values x takes in `for (x = start; x <= end; x += step)`, step > 0:
\* start, start + step, ... while x <= end
LoopXs(start, end, step) ==
    [i \in 1..(IF end < start THEN 0 ELSE (end - start) \div step + 1)
       |-> start + (i - 1) * step]

\* the point the loop body pushes at x
DataPoint(p, x) ==
    [x |-> Round2(x), y |-> Val1(p, Round2(x)), y2 |-> Val2(p, Round2(x))]

\* data: the points of the active scenario
Data(p) ==
    LET xs == LoopXs(p.range.min, p.range.max, p.range.step)
    IN [i \in 1..Len(xs) |-> DataPoint(p, xs[i])]

\* Math.ceil(d / n) for n > 0, d and the result in the same unit
Ceil(d, n) == IF d >= 0 THEN (d + n - 1) \div n ELSE -((-d) \div n)

\* variant of TableStep: a tenth of the range
TableStep_Tenth(p) == 100 * Ceil(p.range.max - p.range.min, 10 * 100)

\* generatePDF: step = Math.ceil((prob.range.max - prob.range.min) / 5)
TableStep(p) == 100 * Ceil(p.range.max - p.range.min, 5 * 100)

\* the table loop `for (x = min; x <= max; x += step)` never ends when it is
\* entered with a step that does not advance x
TableHangs(p) == p.range.min <= p.range.max /\ TableStep(p) <= 0

\* the row the table loop pushes at x, its cells before toFixed
TableRow(p, x) == [x |-> x, y |-> Val1(p, x), y2 |-> Val2(p, x)]

\* tableData of a scenario whose loop ends
TableData(p) ==
    LET xs == IF p.range.max < p.range.min THEN <<>>
              ELSE LoopXs(p.range.min, p.range.max, TableStep(p))
    IN [i \in 1..Len(xs) |-> TableRow(p, xs[i])]

\* currentCalc: the values at the input value
CurrentCalc(p, x) ==
    [val1 |-> Val1(p, x),
     val2 |-> IF p.type = "linear_comparison" THEN Val2(p, x) ELSE NumY(0)]

-----------------------------------------------------------------------------
(* SimulatorView: pure parts *)

\* useState initial value of savedSimulations
InitialSavedSimulations == <<>>

\* useState initial values of the function parameters (hundredths)
InitialActiveTab == "linear"
InitialLinear == [m |-> 200, n |-> 100]
InitialQuadratic == [a |-> 100, b |-> -600, c |-> 500]
InitialExponential == [base |-> 150, k |-> 100]
InitialRange == 10 * 100

\* no state update queued
NoPending == [set |-> FALSE, value |-> <<>>]

\* the load effect: setSavedSimulations(JSON.parse(saved)) when the item is
\* truthy and parses, nothing otherwise
LoadedSimulations(saved) ==
    IF TruthyItem(saved) /\ JSONparse(saved).ok
    THEN [set |-> TRUE, value |-> JSONparse(saved).value]
    ELSE NoPending

-----------------------------------------------------------------------------
(* SimulatorView: the sampler *)

\* Math.abs
Abs(n) == IF n < 0 THEN -n ELSE n

\* greatest common divisor of two naturals
RECURSIVE GCD(_, _)
GCD(a, b) == IF b = 0 THEN a ELSE GCD(b, a % b)

\* b to the n-th power, n a natural
RECURSIVE Power(_, _)
Power(b, n) == IF n = 0 THEN 1 ELSE b * Power(b, n - 1)

\* a/b < c/d for naturals a, c and positive b, d (continued fractions, so
\* that no product is formed)
RECURSIVE FracLess(_, _, _, _)
FracLess(a, b, c, d) ==
    IF a \div b # c \div d THEN a \div b < c \div d
    ELSE IF c % d = 0 THEN FALSE
    ELSE IF a % b = 0 THEN TRUE
    ELSE FracLess(d, c % d, b, a % b)

\* Math.round(x * 10) / 10, on hundredths
Round1(x) == ((x + 5) \div 10) * 10

\* a y value that is a number, in millionths
Micro(v) == [t |-> "micro", v |-> v]

\* k * Math.pow(base, x) for a positive base, kept as the power it is
ExpY(k, base, x) == [t |-> "exp", k |-> k, base |-> base, x |-> x]

\* variant of SimY: a base that is not positive leaves y at 0
SimY_ZeroForBadBase(tab, lin, quad, expo, x) ==
    CASE tab = "linear" -> Micro(lin.m * x * 100 + lin.n * 10000)
      [] tab = "quadratic" -> Micro(quad.a * x * x + quad.b * x * 100 + quad.c * 10000)
      [] tab = "exponential" ->
            IF expo.base > 0 THEN ExpY(expo.k, expo.base, x) ELSE Micro(0)
      [] OTHER -> Micro(0)

\* y of the active function at x (the switch of the loop body)
SimY(tab, lin, quad, expo, x) ==
    CASE tab = "linear" -> Micro(lin.m * x * 100 + lin.n * 10000)
      [] tab = "quadratic" -> Micro(quad.a * x * x + quad.b * x * 100 + quad.c * 10000)
      [] tab = "exponential" ->
            IF expo.base > 0 THEN ExpY(expo.k, expo.base, x) ELSE [t |-> "NaN"]
      [] OTHER -> Micro(0)

\* |k| * base^x < limit, for k, base > 0 and x in hundredths, x a multiple
\* of a half and limit an integer: with base = p/q and x = n/2 this is
\* |k| * P^m < limit * Q^m for even n = 2m, and its square times P/Q for
\* odd n = 2m + 1, where P/Q is p/q or, for negative x, q/p
ExpBelow(k, base, x, limit) ==
    LET g == GCD(base, 100)
        P == IF x >= 0 THEN base \div g ELSE 100 \div g
        Q == IF x >= 0 THEN 100 \div g ELSE base \div g
        n == Abs(x) \div 50
        m == n \div 2
        h == GCD(Abs(k), limit * 100)
        A == (Abs(k) \div h) * Power(P, m)
        B == ((limit * 100) \div h) * Power(Q, m)
    IN IF n % 2 = 0 THEN A < B
       ELSE A = 0 \/ FracLess(A, B, B * Q, A * P)

\* Math.abs(y) < limit
AbsBelow(y, limit) ==
    CASE y.t = "micro" -> Abs(y.v) < limit * 1000000
      [] y.t = "exp" -> ExpBelow(y.k, y.base, y.x, limit)
      [] y.t = "NaN" -> FALSE

\* variant of KeepPoint: no filter
KeepPoint_All(y) == TRUE

\* the filter of the loop body: Math.abs(y) < 200
KeepPoint(y) == AbsBelow(y, 200)

\* the point the loop body computes at x
SimPoint(tab, lin, quad, expo, x) ==
    [x |-> Round1(x), y |-> SimY(tab, lin, quad, expo, Round1(x))]

\* data: start = -Math.abs(range), end = Math.abs(range), step = 0.5; the
\* points that pass the filter are pushed
SimData(tab, lin, quad, expo, rng) ==
    LET xs == LoopXs(-Abs(rng), Abs(rng), 50)
        all == [i \in 1..Len(xs) |-> SimPoint(tab, lin, quad, expo, xs[i])]
    IN SelectSeq(all, LAMBDA pt : KeepPoint(pt.y))

-----------------------------------------------------------------------------
(* SimulatorView: the quadratic analysis *)
(* Numbers are exact here: a rational, an infinity or NaN, with the        *)
(* arithmetic of IEEE 754 on the special values.  Math.sqrt of a rational  *)
(* that is no perfect square is kept as a term, and so is what is computed *)
(* from it.                                                                *)

\* the rational n/d, d # 0, in lowest terms with a positive denominator
Rat(n, d) ==
    LET g == GCD(Abs(n), Abs(d))
    IN [t |-> "rat",
        n |-> (IF d < 0 THEN -1 ELSE 1) * (n \div g),
        d |-> Abs(d) \div g]

RNaN == [t |-> "nan"]
RInf(neg) == [t |-> "inf", neg |-> neg]

\* a term that is not evaluated
Term(op, l, r) == [t |-> "term", op |-> op, l |-> l, r |-> r]
IsTerm(x) == x.t = "term"

\* the number with v hundredths
FromHundredths(v) == Rat(v, 100)

\* x < 0, x === 0
RNegative(x) == (x.t = "rat" /\ x.n < 0) \/ (x.t = "inf" /\ x.neg)
RIsZero(x) == x.t = "rat" /\ x.n = 0

\* -x
RNeg(x) ==
    IF x.t = "rat" THEN Rat(-x.n, x.d)
    ELSE IF x.t = "inf" THEN RInf(~x.neg)
    ELSE IF x.t = "nan" THEN RNaN
    ELSE Term("neg", x, x)

\* x + y
RAdd(x, y) ==
    IF x.t = "nan" \/ y.t = "nan" THEN RNaN
    ELSE IF IsTerm(x) \/ IsTerm(y) THEN Term("add", x, y)
    ELSE IF x.t = "inf" /\ y.t = "inf" THEN (IF x.neg = y.neg THEN x ELSE RNaN)
    ELSE IF x.t = "inf" THEN x
    ELSE IF y.t = "inf" THEN y
    ELSE Rat(x.n * y.d + y.n * x.d, x.d * y.d)

\* x * y
RMul(x, y) ==
    IF x.t = "nan" \/ y.t = "nan" THEN RNaN
    ELSE IF IsTerm(x) \/ IsTerm(y) THEN Term("mul", x, y)
    ELSE IF x.t = "inf" \/ y.t = "inf"
         THEN (IF RIsZero(x) \/ RIsZero(y) THEN RNaN
               ELSE RInf(RNegative(x) # RNegative(y)))
    ELSE Rat(x.n * y.n, x.d * y.d)

\* x / y; a zero divisor is +0 here
RDiv(x, y) ==
    IF x.t = "nan" \/ y.t = "nan" THEN RNaN
    ELSE IF IsTerm(x) \/ IsTerm(y) THEN Term("div", x, y)
    ELSE IF y.t = "inf" THEN (IF x.t = "inf" THEN RNaN ELSE Rat(0, 1))
    ELSE IF RIsZero(y) THEN (IF RIsZero(x) THEN RNaN ELSE RInf(RNegative(x)))
    ELSE IF x.t = "inf" THEN RInf(x.neg # RNegative(y))
    ELSE Rat(x.n * y.d, x.d * y.n)

\* the integer part of the square root of a natural
ISqrt(n) == CHOOSE r \in 0..n : r * r <= n /\ (r + 1) * (r + 1) > n
IsSquare(n) == ISqrt(n) * ISqrt(n) = n

\* Math.sqrt(x)
RSqrt(x) ==
    IF x.t = "nan" THEN RNaN
    ELSE IF IsTerm(x) THEN Term("sqrt", x, x)
    ELSE IF RNegative(x) THEN RNaN
    ELSE IF x.t = "inf" THEN x
    ELSE IF IsSquare(x.n) /\ IsSquare(x.d) THEN Rat(ISqrt(x.n), ISqrt(x.d))
    ELSE Term("sqrt", x, x)

\* texts: a number with two decimals (its sign and its hundredths), a word
Fixed(neg, h) == [t |-> "fixed", neg |-> neg, h |-> h]
Text(str) == [t |-> "text", s |-> str]

\* x.toFixed(2): the magnitude rounded to hundredths, a tie going up
ToFixed2(x) ==
    IF x.t = "nan" THEN Text("NaN")
    ELSE IF x.t = "inf" THEN Text(IF x.neg THEN "-Infinity" ELSE "Infinity")
    ELSE IF IsTerm(x) THEN Term("toFixed", x, x)
    ELSE Fixed(x.n < 0, (2 * Abs(x.n) * 100 + x.d) \div (2 * x.d))

\* variant of QuadraticRoots: the root with '-' is printed first
QuadraticRoots_MinusFirst(a, b, vx, delta) ==
    IF RNegative(delta) THEN <<Text("No reales")>>
    ELSE IF RIsZero(delta) THEN <<ToFixed2(vx)>>
    ELSE <<ToFixed2(RDiv(RAdd(RNeg(b), RNeg(RSqrt(delta))), RMul(Rat(2, 1), a))),
           Text(" y "),
           ToFixed2(RDiv(RAdd(RNeg(b), RSqrt(delta)), RMul(Rat(2, 1), a)))>>

\* the text after "Raíces:"
QuadraticRoots(a, b, vx, delta) ==
    IF RNegative(delta) THEN <<Text("No reales")>>
    ELSE IF RIsZero(delta) THEN <<ToFixed2(vx)>>
    ELSE <<ToFixed2(RDiv(RAdd(RNeg(b), RSqrt(delta)), RMul(Rat(2, 1), a))),
           Text(" y "),
           ToFixed2(RDiv(RAdd(RNeg(b), RNeg(RSqrt(delta))), RMul(Rat(2, 1), a)))>>

\* variant of Concavity: a = 0 takes the first branch
Concavity_ZeroConvex(a) == IF a >= 0 THEN "Convexa" ELSE "Cóncava"

\* quadratic.a > 0 ? 'Convexa' : 'Cóncava' (the words without their sign)
Concavity(a) == IF a > 0 THEN "Convexa" ELSE "Cóncava"

\* getLinearAnalysis
GetLinearAnalysis(lin) ==
    [trend |-> IF lin.m > 0 THEN "Creciente"
               ELSE IF lin.m < 0 THEN "Decreciente" ELSE "Constante",
     root |-> IF lin.m # 0
              THEN ToFixed2(RDiv(RNeg(FromHundredths(lin.n)), FromHundredths(lin.m)))
              ELSE Text("N/A")]

\* getQuadraticAnalysis
GetQuadraticAnalysis(quad) ==
    LET a == FromHundredths(quad.a)
        b == FromHundredths(quad.b)
        c == FromHundredths(quad.c)
        vx == RDiv(RNeg(b), RMul(Rat(2, 1), a))
        vy == RAdd(RAdd(RMul(a, RMul(vx, vx)), RMul(b, vx)), c)
        delta == RAdd(RMul(b, b), RNeg(RMul(RMul(Rat(4, 1), a), c)))
    IN [concavity |-> Concavity(quad.a),
        vertex |-> <<ToFixed2(vx), ToFixed2(vy)>>,
        delta |-> ToFixed2(delta),
        roots |-> QuadraticRoots(a, b, vx, delta)]

-----------------------------------------------------------------------------
(* SimulatorView: saved simulations *)

\* what prompt() returns: null when cancelled, the text otherwise
PromptNull == [kind |-> "null"]
PromptText(text) == [kind |-> "text", text |-> text]

\* variant of NoName: only a cancelled prompt counts
NoName_NullOnly(answer) == answer.kind = "null"

\* !name
NoName(answer) == answer.kind = "null" \/ answer.text = ""

\* new Date().toLocaleDateString(): the clock readings here fall on one day
LocaleDate(now) == "1/1/2026"

\* params of handleSave: the record of the active tab
ActiveParams(tab, lin, quad, expo) ==
    IF tab = "linear" THEN lin
    ELSE IF tab = "quadratic" THEN quad
    ELSE expo

\* variant of NewSim: the params are those of the linear tab
NewSim_LinearParams(now, answer, tab, lin, quad, expo) ==
    [id |-> now,
     name |-> answer.text,
     type |-> tab,
     params |-> lin,
     timestamp |-> LocaleDate(now)]

\* newSim of handleSave
NewSim(now, answer, tab, lin, quad, expo) ==
    [id |-> now,
     name |-> answer.text,
     type |-> tab,
     params |-> ActiveParams(tab, lin, quad, expo),
     timestamp |-> LocaleDate(now)]

\* savedSimulations.filter(s => s.id !== id)
FilteredSimulations(sims, id) == SelectSeq(sims, LAMBDA sim : sim.id # id)

-----------------------------------------------------------------------------
(* Inputs *)

\* what the title field of the dialog is set to
Titles == {"", "Caso"}

\* the position the slider is dragged to (hundredths): within the range of
\* every scenario, the default value of none
SliderVals == {700}

\* a custom scenario and a simulation written by an earlier session
StoredProblem == MakeProblem(CustomId(0), ("title" :> "Caso") @@ InitialNewProblem)
StoredSimulation ==
    [id |-> 0, name |-> "Caso de Estudio 1", type |-> "linear",
     params |-> [m |-> 200, n |-> 100], timestamp |-> "1/1/2026"]

\* contents of the two keys when the application starts
InitialProblemsStores ==
    {NullItem, EmptyItem, GarbageItem, JSONstringify(<<>>), JSONstringify(<<StoredProblem>>)}
InitialSimStores ==
    {NullItem, GarbageItem, JSONstringify(<<StoredSimulation>>)}

\* option values chosen in the <select> of the dialog
DialogTypes == {"linear_simple", "exponential_growth"}

\* parameter inputs typed into, and the texts typed
ParamFields == {"slope", "base"}
ParamTexts == {"0", "-2"}

\* texts typed into the "Max X" input
MaxTexts == {"2.5"}

\* saved simulations found in localStorage whose base is not positive
StoredZeroBase ==
    [id |-> 1, name |-> "Base 0", type |-> "exponential",
     params |-> [base |-> 0, k |-> 100], timestamp |-> "1/1/2026"]
StoredNegativeBase ==
    [id |-> 2, name |-> "Base -2", type |-> "exponential",
     params |-> [base |-> -200, k |-> 100], timestamp |-> "1/1/2026"]

\* slider positions explored, per parameter (hundredths)
LinearVals == [m |-> {1000, 0}]
QuadraticVals == [a |-> {200, 0, -100}, b |-> {0}, c |-> {500, 900, 1000}]
ExponentialVals == [base |-> {400}, k |-> {1000}]
RangeVals == {5 * 100}

\* slider positions between a save and a load (hundredths)
SavedSlopes == {-300}
SavedOpenings == {200}
SavedBases == {400}

\* texts typed into the "Max X" input before a report
ReportMaxTexts == {"", "0", "2.5", "-3"}

\* answers given to the prompt of handleSave
PromptResults == {PromptNull, PromptText(""), PromptText("Caso 2")}

\* the tabs of the simulator
Tabs == {"linear", "quadratic", "exponential"}

Op(name, arg) == <<name, arg>>

-----------------------------------------------------------------------------
(* Initial state: App renders the theory view, no other view is mounted *)

\* the state variables of a ProblemsView that is not mounted
ProblemsUnmounted ==
    /\ problems' = <<>>
    /\ activeId' = ""
    /\ inputValue' = 0
    /\ showModal' = FALSE
    /\ newProblem' = InitialNewProblem
    /\ typeShown' = FirstOption
    /\ typed' = FALSE

\* the function parameters of a SimulatorView at its first render
SimParamsInitial ==
    /\ activeTab' = InitialActiveTab
    /\ linear' = InitialLinear
    /\ quadratic' = InitialQuadratic
    /\ exponential' = InitialExponential
    /\ range' = InitialRange

\* the state variables of a SimulatorView that is not mounted
SimulatorUnmounted ==
    /\ savedSimulations' = InitialSavedSimulations
    /\ simPending' = NoPending
    /\ SimParamsInitial

\* App at its first render, the two localStorage items drawn from the
\* given sets
InitFrom(problemsStores, simStores) ==
    /\ currentView = "theory"
    /\ problems = <<>>
    /\ activeId = ""
    /\ inputValue = 0
    /\ showModal = FALSE
    /\ newProblem = InitialNewProblem
    /\ typeShown = FirstOption
    /\ typed = FALSE
    /\ problemsStore \in problemsStores
    /\ savedSimulations = InitialSavedSimulations
    /\ simPending = NoPending
    /\ activeTab = InitialActiveTab
    /\ linear = InitialLinear
    /\ quadratic = InitialQuadratic
    /\ exponential = InitialExponential
    /\ range = InitialRange
    /\ simStore \in simStores
    /\ clock = 0
    /\ crashed = FALSE
    /\ lastOp = Op("init", "")

Init == InitFrom(InitialProblemsStores, InitialSimStores)

\* an event can be handled: the tree is alive and no render is outstanding
Idle == ~crashed /\ ~simPending.set

-----------------------------------------------------------------------------
(* App: navigation *)

\* setCurrentView(THEORY): the mounted view is unmounted
ShowTheory ==
    /\ Idle
    /\ currentView # "theory"
    /\ currentView' = "theory"
    /\ ProblemsUnmounted
    /\ SimulatorUnmounted
    /\ lastOp' = Op("showTheory", "")
    /\ UNCHANGED <<problemsStore, simStore, clock, crashed>>

\* setCurrentView(PROBLEMS): ProblemsView mounts; its first render runs the
\* useState initializers and the input-value useMemo, then the persist
\* effect writes the custom subset
ShowProblems ==
    /\ Idle
    /\ currentView # "problems"
    /\ currentView' = "problems"
    /\ LET init == InitialProblems(problemsStore)
       IN IF init.threw
          THEN \* the first render fails: nothing is mounted, no effect runs
               /\ crashed' = TRUE
               /\ ProblemsUnmounted
               /\ UNCHANGED problemsStore
          ELSE /\ crashed' = FALSE
               /\ problems' = init.value
               /\ activeId' = InitialActiveId
               \* useState(30), then the useMemo of the first render
               /\ inputValue' = ActiveProblem(problems', activeId').range.defaultVal
               /\ showModal' = FALSE
               /\ newProblem' = InitialNewProblem
               /\ typeShown' = FirstOption
               /\ typed' = FALSE
               /\ problemsStore' = JSONstringify(CustomProblems(problems'))
    /\ SimulatorUnmounted
    /\ lastOp' = Op("showProblems", problemsStore.kind)
    /\ UNCHANGED <<simStore, clock>>

\* setCurrentView(SIMULATOR): SimulatorView mounts; the first render has an
\* empty list, the load effect queues the parsed list, the save effect
\* writes the list of the first render
ShowSimulator ==
    /\ Idle
    /\ currentView # "simulator"
    /\ currentView' = "simulator"
    /\ savedSimulations' = InitialSavedSimulations
    /\ simPending' = LoadedSimulations(simStore)
    /\ SimParamsInitial
    /\ simStore' = JSONstringify(savedSimulations')
    /\ ProblemsUnmounted
    /\ lastOp' = Op("showSimulator", simStore.kind)
    /\ UNCHANGED <<problemsStore, clock, crashed>>

\* the render caused by the load effect's setSavedSimulations, and the save
\* effect after it
SimRerender ==
    /\ ~crashed
    /\ currentView = "simulator"
    /\ simPending.set
    /\ savedSimulations' = simPending.value
    /\ simPending' = NoPending
    /\ simStore' = JSONstringify(savedSimulations')
    /\ lastOp' = Op("simRerender", "")
    /\ UNCHANGED <<currentView, problemsVars, problemsStore, simParams, clock, crashed>>

\* SimulatorView is rendered and its mount effects are done
SimReady == Idle /\ currentView = "simulator"

\* SimulatorView events leave the state of the other views alone
SimFrame == UNCHANGED <<currentView, problemsVars, problemsStore, simPending, clock, crashed>>

\* a tab button: setActiveTab(tab)
SetActiveTab(tab) ==
    /\ SimReady
    /\ tab # activeTab
    /\ activeTab' = tab
    /\ lastOp' = Op("setActiveTab", tab)
    /\ UNCHANGED <<savedSimulations, linear, quadratic, exponential, range, simStore>>
    /\ SimFrame

\* a slider of the linear tab: setLinear({...linear, f: v})
SetLinear(f, v) ==
    /\ SimReady
    /\ activeTab = "linear"
    /\ v # linear[f]
    /\ linear' = [linear EXCEPT ![f] = v]
    /\ lastOp' = Op("setLinear", f)
    /\ UNCHANGED <<savedSimulations, activeTab, quadratic, exponential, range, simStore>>
    /\ SimFrame

\* a slider of the quadratic tab: setQuadratic({...quadratic, f: v})
SetQuadratic(f, v) ==
    /\ SimReady
    /\ activeTab = "quadratic"
    /\ v # quadratic[f]
    /\ quadratic' = [quadratic EXCEPT ![f] = v]
    /\ lastOp' = Op("setQuadratic", f)
    /\ UNCHANGED <<savedSimulations, activeTab, linear, exponential, range, simStore>>
    /\ SimFrame

\* a slider of the exponential tab: setExponential({...exponential, f: v})
SetExponential(f, v) ==
    /\ SimReady
    /\ activeTab = "exponential"
    /\ v # exponential[f]
    /\ exponential' = [exponential EXCEPT ![f] = v]
    /\ lastOp' = Op("setExponential", f)
    /\ UNCHANGED <<savedSimulations, activeTab, linear, quadratic, range, simStore>>
    /\ SimFrame

\* the zoom slider: setRange(Number(e.target.value))
SetRange(v) ==
    /\ SimReady
    /\ v # range
    /\ range' = v
    /\ lastOp' = Op("setRange", "")
    /\ UNCHANGED <<savedSimulations, activeTab, linear, quadratic, exponential, simStore>>
    /\ SimFrame

\* handleSave, the prompt answering with answer
SimHandleSave(answer) ==
    /\ SimReady
    /\ IF NoName(answer)
       THEN /\ lastOp' = Op("save", "abandoned")
            /\ UNCHANGED <<savedSimulations, simStore>>
       ELSE /\ Len(savedSimulations) < MaxSaved
            /\ savedSimulations' =
                  Append(savedSimulations,
                         NewSim(clock, answer, activeTab, linear, quadratic, exponential))
            /\ simStore' = JSONstringify(savedSimulations')
            /\ lastOp' = Op("save", "stored")
    /\ UNCHANGED simParams
    /\ SimFrame

\* handleLoad(sim)
SimHandleLoad(sim) ==
    /\ SimReady
    /\ activeTab' = sim.type
    /\ linear' = IF sim.type = "linear" THEN sim.params ELSE linear
    /\ quadratic' = IF sim.type = "quadratic" THEN sim.params ELSE quadratic
    /\ exponential' = IF sim.type = "exponential" THEN sim.params ELSE exponential
    /\ lastOp' = Op("load", sim.type)
    /\ UNCHANGED <<savedSimulations, range, simStore>>
    /\ SimFrame

\* click on the name of the i-th saved simulation
SimLoadClick(i) ==
    /\ i \in 1..Len(savedSimulations)
    /\ SimHandleLoad(savedSimulations[i])

\* handleDelete(id), the confirm dialog answering with confirmed
SimHandleDelete(id, confirmed) ==
    /\ SimReady
    /\ IF confirmed
       THEN /\ savedSimulations' = FilteredSimulations(savedSimulations, id)
            /\ simStore' = JSONstringify(savedSimulations')
            /\ lastOp' = Op("simDelete", "confirmed")
       ELSE /\ lastOp' = Op("simDelete", "declined")
            /\ UNCHANGED <<savedSimulations, simStore>>
    /\ UNCHANGED simParams
    /\ SimFrame

\* the trash button of the i-th saved simulation
SimDeleteClick(i, confirmed) ==
    /\ i \in 1..Len(savedSimulations)
    /\ SimHandleDelete(savedSimulations[i].id, confirmed)

\* time passes
Tick ==
    /\ clock < MaxClock
    /\ clock' = clock + 1
    /\ UNCHANGED <<currentView, problemsVars, problemsStore, simVars, simStore,
                   crashed, lastOp>>

-----------------------------------------------------------------------------
(* ProblemsView: events *)

ProblemsReady == Idle /\ currentView = "problems"

\* the part of the state no ProblemsView event touches
ProblemsFrame == UNCHANGED <<currentView, simVars, simStore, clock>>

\* "Crear Problema": setShowModal(true)
OpenModal ==
    /\ ProblemsReady
    /\ ~showModal
    /\ showModal' = TRUE
    /\ typeShown' = FirstOption
    /\ typed' = FALSE
    /\ lastOp' = Op("openModal", "")
    /\ UNCHANGED <<problems, activeId, inputValue, newProblem, problemsStore, crashed>>
    /\ ProblemsFrame

\* "Cancelar" and the X of the dialog: setShowModal(false)
CloseModal ==
    /\ ProblemsReady
    /\ showModal
    /\ showModal' = FALSE
    /\ lastOp' = Op("closeModal", "")
    /\ UNCHANGED <<problems, activeId, inputValue, newProblem, typeShown, typed, problemsStore, crashed>>
    /\ ProblemsFrame

\* the title input: setNewProblem({...newProblem, title})
SetTitle(t) ==
    /\ ProblemsReady
    /\ showModal
    /\ newProblem' = ("title" :> t) @@ newProblem
    /\ lastOp' = Op("setTitle", t)
    /\ UNCHANGED <<problems, activeId, inputValue, showModal, typeShown, typed, problemsStore, crashed>>
    /\ ProblemsFrame

\* "Guardar Problema"
HandleAddProblem ==
    /\ ProblemsReady
    /\ showModal
    /\ Len(CustomProblems(problems)) < MaxCustom
    /\ LET id == CustomId(clock)
           p == MakeProblem(id, newProblem)
       IN /\ problems' = AddedProblems(problems, p)
          /\ activeId' = id
          /\ lastOp' = Op("create", id)
    /\ showModal' = FALSE
    /\ inputValue' = RenderedInput(problems, activeId, problems', activeId', inputValue)
    /\ problemsStore' = JSONstringify(CustomProblems(problems'))
    /\ UNCHANGED <<newProblem, typeShown, typed, crashed>>
    /\ ProblemsFrame

\* click on the i-th listed entry: setActiveId(p.id)
Select(i) ==
    /\ ProblemsReady
    /\ i \in 1..Len(problems)
    /\ activeId' = problems[i].id
    /\ inputValue' = RenderedInput(problems, activeId, problems, activeId', inputValue)
    /\ lastOp' = Op("select", problems[i].id)
    /\ UNCHANGED <<problems, showModal, newProblem, typeShown, typed, problemsStore, crashed>>
    /\ ProblemsFrame

\* handleDelete(id, e)
HandleDelete(id) ==
    /\ ProblemsReady
    /\ LET newDocs == DeletedProblems(problems, id)
       IN /\ problems' = newDocs
          /\ IF newDocs = <<>>
             THEN \* newDocs[0] is undefined, and so is the active problem of
                  \* the next render: the render throws and no effect runs
                  /\ crashed' = TRUE
                  /\ UNCHANGED <<activeId, inputValue, problemsStore>>
             ELSE /\ crashed' = FALSE
                  /\ activeId' = ActiveAfterDelete(newDocs, activeId, id)
                  /\ inputValue' = RenderedInput(problems, activeId, newDocs, activeId', inputValue)
                  /\ problemsStore' = JSONstringify(CustomProblems(newDocs))
    /\ lastOp' = Op("delete", IF activeId = id THEN "active" ELSE "other")
    /\ UNCHANGED <<showModal, newProblem, typeShown, typed>>
    /\ ProblemsFrame

\* the trash button, rendered for the entries with isCustom only
DeleteClick(i) ==
    /\ i \in 1..Len(problems)
    /\ problems[i].isCustom
    /\ HandleDelete(problems[i].id)

\* handleDelete called with the id of an entry that has no trash button
DeleteBuiltin(i) ==
    /\ i \in 1..Len(problems)
    /\ ~problems[i].isCustom
    /\ HandleDelete(problems[i].id)

\* the <select> of the dialog: setNewProblem({...newProblem, type}); the
\* element is uncontrolled, so onChange fires when the option it displays
\* changes, whatever the type of the draft is
SetType(ty) ==
    /\ ProblemsReady
    /\ showModal
    /\ ty # typeShown
    /\ typeShown' = ty
    /\ newProblem' = ("type" :> ty) @@ newProblem
    /\ lastOp' = Op("setType", ty)
    /\ UNCHANGED <<problems, activeId, inputValue, showModal, typed, problemsStore, crashed>>
    /\ ProblemsFrame

\* a parameter input of the dialog:
\* setNewProblem({...newProblem, params: {...newProblem.params, f: parseFloat(text)}})
SetParam(f, text) ==
    /\ ProblemsReady
    /\ showModal
    /\ f \in VisibleParams(newProblem.type)
    /\ newProblem' =
          ("params" :> ((f :> ParseFloat(text)) @@
                        (IF "params" \in DOMAIN newProblem
                         THEN newProblem.params ELSE <<>>)))
          @@ newProblem
    /\ typed' = TRUE
    /\ lastOp' = Op("setParam", f)
    /\ UNCHANGED <<problems, activeId, inputValue, showModal, typeShown, problemsStore, crashed>>
    /\ ProblemsFrame

\* the "Max X" input:
\* setNewProblem({...newProblem, range: {...newProblem.range, max: parseFloat(text)}})
SetMax(text) ==
    /\ ProblemsReady
    /\ showModal
    /\ newProblem' = [newProblem EXCEPT !.range.max = ParseFloat(text)]
    /\ lastOp' = Op("setMax", text)
    /\ UNCHANGED <<problems, activeId, inputValue, showModal, typeShown, typed, problemsStore, crashed>>
    /\ ProblemsFrame

\* "Descargar PDF": generatePDF, the table of every scenario of the catalog;
\* a table loop that never ends leaves the handler running
GeneratePDF ==
    /\ ProblemsReady
    /\ IF \E i \in 1..Len(problems) : TableHangs(problems[i])
       THEN /\ crashed' = TRUE
            /\ lastOp' = Op("generatePDF", [done |-> FALSE, tables |-> <<>>])
       ELSE /\ crashed' = crashed
            /\ lastOp' = Op("generatePDF",
                            [done |-> TRUE,
                             tables |-> [i \in 1..Len(problems) |-> TableData(problems[i])]])
    /\ UNCHANGED <<problemsVars, problemsStore>>
    /\ ProblemsFrame

\* the slider: setInputValue(Number(e.target.value))
Slider(v) ==
    /\ ProblemsReady
    /\ v >= ActiveProblem(problems, activeId).range.min
    /\ v <= ActiveProblem(problems, activeId).range.max
    /\ v # inputValue
    /\ inputValue' = v
    /\ lastOp' = Op("slider", "")
    /\ UNCHANGED <<problems, activeId, showModal, newProblem, typeShown, typed, problemsStore, crashed>>
    /\ ProblemsFrame

-----------------------------------------------------------------------------
(* Specifications *)

Next ==
    \/ ShowTheory
    \/ ShowProblems
    \/ ShowSimulator
    \/ SimRerender
    \/ Tick
    \/ OpenModal
    \/ CloseModal
    \/ \E t \in Titles : SetTitle(t)
    \/ HandleAddProblem
    \/ \E i \in 1..(Len(DEFAULT_PROBLEMS) + MaxCustom) : Select(i)
    \/ \E i \in 1..(Len(DEFAULT_PROBLEMS) + MaxCustom) : DeleteClick(i)
    \/ \E v \in SliderVals : Slider(v)

\* the application as its user drives it
Spec == Init /\ [][Next]_vars

NextDirect ==
    \/ ShowTheory
    \/ ShowProblems
    \/ Tick
    \/ OpenModal
    \/ HandleAddProblem
    \/ \E i \in 1..(Len(DEFAULT_PROBLEMS) + MaxCustom) : Select(i)
    \/ \E i \in 1..(Len(DEFAULT_PROBLEMS) + MaxCustom) : DeleteClick(i)
    \/ \E i \in 1..(Len(DEFAULT_PROBLEMS) + MaxCustom) : DeleteBuiltin(i)

\* the catalog operations, with handleDelete also called on the entries
\* that have no trash button
DirectSpec == Init /\ [][NextDirect]_vars

\* ProblemsView with the inputs of its create dialog, on empty storage
DialogInit == InitFrom({NullItem}, {NullItem})

\* "Guardar Problema", while the catalog has room for the entry
DialogCreate ==
    /\ Len(CustomProblems(problems)) < MaxDialogCustom
    /\ HandleAddProblem

NextDialog ==
    \/ ShowProblems
    \/ OpenModal
    \/ CloseModal
    \/ \E ty \in DialogTypes : SetType(ty)
    \/ \E f \in ParamFields, text \in ParamTexts : SetParam(f, text)
    \/ \E text \in MaxTexts : SetMax(text)
    \/ DialogCreate
    \/ \E i \in 1..(Len(DEFAULT_PROBLEMS) + MaxCustom) : Select(i)
    \/ \E i \in 1..(Len(DEFAULT_PROBLEMS) + MaxCustom) : DeleteClick(i)

DialogSpec == DialogInit /\ [][NextDialog]_vars

\* the catalog as its user drives it: mounts, creations, selections,
\* deletions through the trash button, the slider
CatalogInit == InitFrom(InitialProblemsStores, {NullItem})

NextCatalog ==
    \/ ShowTheory
    \/ ShowProblems
    \/ Tick
    \/ OpenModal
    \/ HandleAddProblem
    \/ \E i \in 1..(Len(DEFAULT_PROBLEMS) + MaxCustom) : Select(i)
    \/ \E i \in 1..(Len(DEFAULT_PROBLEMS) + MaxCustom) : DeleteClick(i)
    \/ \E v \in SliderVals : Slider(v)

CatalogSpec == CatalogInit /\ [][NextCatalog]_vars

\* SimulatorView with its saved simulations
SimulatorInit == InitFrom({NullItem}, InitialSimStores)

NextSimulator ==
    \/ ShowTheory
    \/ ShowSimulator
    \/ SimRerender
    \/ Tick
    \/ \E tab \in Tabs : SetActiveTab(tab)
    \/ \E answer \in PromptResults : SimHandleSave(answer)
    \/ \E i \in 1..(MaxSaved + 1) : SimLoadClick(i)
    \/ \E i \in 1..(MaxSaved + 1), confirmed \in BOOLEAN : SimDeleteClick(i, confirmed)

SimulatorSpec == SimulatorInit /\ [][NextSimulator]_vars

\* ProblemsView with the "Max X" input of its dialog and the report button
ReportInit == InitFrom({NullItem, JSONstringify(<<StoredProblem>>)}, {NullItem})

\* "Guardar Problema", while the catalog has room for the entry
ReportCreate ==
    /\ Len(CustomProblems(problems)) < MaxCustom
    /\ HandleAddProblem

NextReport ==
    \/ ShowProblems
    \/ OpenModal
    \/ \E ty \in DialogTypes : SetType(ty)
    \/ \E text \in ReportMaxTexts : SetMax(text)
    \/ ReportCreate
    \/ \E i \in 1..(Len(DEFAULT_PROBLEMS) + MaxCustom) : DeleteClick(i)
    \/ GeneratePDF

ReportSpec == ReportInit /\ [][NextReport]_vars

\* SimulatorView with its saved list and a slider of each tab
SaveLoadInit == InitFrom({NullItem}, {NullItem, JSONstringify(<<StoredSimulation>>)})

NextSaveLoad ==
    \/ ShowTheory
    \/ ShowSimulator
    \/ SimRerender
    \/ Tick
    \/ \E tab \in Tabs : SetActiveTab(tab)
    \/ \E v \in SavedSlopes : SetLinear("m", v)
    \/ \E v \in SavedOpenings : SetQuadratic("a", v)
    \/ \E v \in SavedBases : SetExponential("base", v)
    \/ \E v \in RangeVals : SetRange(v)
    \/ SimHandleSave(PromptText("Caso 2"))
    \/ \E i \in 1..(MaxSaved + 1) : SimLoadClick(i)
    \/ \E i \in 1..(MaxSaved + 1) : SimDeleteClick(i, TRUE)

SaveLoadSpec == SaveLoadInit /\ [][NextSaveLoad]_vars

\* SimulatorView with its parameter sliders, on a storage that holds saved
\* simulations whose base is not positive
FunctionInit ==
    InitFrom({NullItem}, {JSONstringify(<<StoredZeroBase, StoredNegativeBase>>)})

NextFunction ==
    \/ ShowSimulator
    \/ SimRerender
    \/ \E tab \in Tabs : SetActiveTab(tab)
    \/ \E f \in DOMAIN LinearVals : \E v \in LinearVals[f] : SetLinear(f, v)
    \/ \E f \in DOMAIN QuadraticVals : \E v \in QuadraticVals[f] : SetQuadratic(f, v)
    \/ \E f \in DOMAIN ExponentialVals : \E v \in ExponentialVals[f] : SetExponential(f, v)
    \/ \E v \in RangeVals : SetRange(v)
    \/ \E i \in 1..2 : SimLoadClick(i)

FunctionSpec == FunctionInit /\ [][NextFunction]_vars

-----------------------------------------------------------------------------
(* Properties of the scenario catalog *)

\* ProblemsView is on screen
ProblemsMounted == currentView = "problems"

\* the positions of the catalog whose entry has the given id
Holders(ps, id) == {i \in 1..Len(ps) : ps[i].id = id}

\* the ids of the built-in scenarios, in their order
BuiltinIds == <<"car_rental", "snowball", "anesthesia">>

\* the entries with isCustom, in order (stated apart from the code's filter)
RECURSIVE OnlyCustom(_)
OnlyCustom(ps) ==
    IF ps = <<>> THEN <<>>
    ELSE (IF Head(ps).isCustom THEN <<Head(ps)>> ELSE <<>>) \o OnlyCustom(Tail(ps))

\* the key holds nothing that can be deserialized
Unreadable(item) == item.kind \in {"null", "empty", "garbage"}

\* the entries a key holds
PersistedEntries(item) == IF item.kind = "json" THEN item.value ELSE <<>>

\* C1: while ProblemsView is shown, after any sequence of create, select and
\* delete (of a custom entry) operations, the catalog is non-empty and
\* activeId is the id of some entry of the catalog.
C1_ActiveIdResolves ==
    ProblemsMounted =>
        /\ Len(problems) > 0
        /\ Holders(problems, activeId) # {}

\* C1 witness: the Active custom entry was deleted and the selection moved on,
\* while another custom entry is still listed.
C1_Witness ==
    /\ ProblemsMounted
    /\ lastOp = Op("delete", "active")
    /\ Len(problems) > Len(DEFAULT_PROBLEMS)
    /\ Holders(problems, activeId) # {}

\* C2 (as claimed): exactly one catalog entry has its id equal to activeId,
\* also when two creates happen with no clock advance between them.
C2_ExactlyOneActive ==
    ProblemsMounted => Cardinality(Holders(problems, activeId)) = 1

\* C3 (as claimed): after any sequence of creates and deletes the ids of the
\* catalog are pairwise distinct, and an entry that stays keeps its id.
C3_UniqueStableIds ==
    [][ProblemsMounted' =>
          /\ \A i, j \in 1..Len(problems') :
                problems'[i].id = problems'[j].id => i = j
          /\ (ProblemsMounted /\ Len(problems') >= Len(problems)) =>
                \A i \in 1..Len(problems) : problems'[i].id = problems[i].id]_vars

\* C4 (as claimed): handleDelete called with the id of a built-in entry is a
\* no-op: the catalog and activeId are unchanged.
C4_BuiltinDeleteRejected ==
    [][\A i \in 1..Len(problems) :
          (~problems[i].isCustom /\ HandleDelete(problems[i].id)) =>
              /\ problems' = problems
              /\ activeId' = activeId]_vars

\* C5: while ProblemsView is shown, so after every create and delete and
\* before the next operation, the persisted key holds exactly the entries of
\* the catalog with isCustom = true, in catalog order, and no built-in entry.
C5_PersistedCustomSubset ==
    ProblemsMounted =>
        /\ problemsStore.kind = "json"
        /\ problemsStore.value = OnlyCustom(problems)
        /\ \A k \in 1..Len(problemsStore.value) : problemsStore.value[k].isCustom

\* C5 witness: a delete left one custom entry, which is what the key holds.
C5_Witness ==
    /\ ProblemsMounted
    /\ lastOp[1] = "delete"
    /\ Len(problems) = Len(DEFAULT_PROBLEMS) + 1
    /\ problemsStore.kind = "json"
    /\ Len(problemsStore.value) = 1

\* C6: mounting a view whose key is absent or cannot be deserialized completes
\* without error with an empty list of custom problems (the catalog is exactly
\* the built-in defaults), respectively an empty list of saved simulations.
C6_UnreadableMeansEmpty ==
    [][/\ (ShowProblems /\ Unreadable(problemsStore)) =>
             /\ ~crashed'
             /\ problems' = DEFAULT_PROBLEMS
             /\ OnlyCustom(problems') = <<>>
       /\ (ShowSimulator /\ Unreadable(simStore)) =>
             /\ ~crashed'
             /\ savedSimulations' = <<>>
             /\ ~simPending'.set]_vars

\* C6 witness: ProblemsView has just mounted from a key that is not JSON, and
\* SimulatorView was mounted before from a key without a list.
C6_Witness ==
    /\ lastOp = Op("showProblems", "garbage")
    /\ ~crashed
    /\ problems = DEFAULT_PROBLEMS
    /\ simStore = JSONstringify(<<>>)

\* C7: create appends exactly one entry, with isCustom = true, at the end of
\* the catalog, leaves the entries before it as they were and makes the new
\* entry's id the activeId.
C7_CreateAppends ==
    [][HandleAddProblem =>
          /\ Len(problems') = Len(problems) + 1
          /\ SubSeq(problems', 1, Len(problems)) = problems
          /\ problems'[Len(problems')].isCustom
          /\ activeId' = problems'[Len(problems')].id]_vars

\* C7 witness: a second custom entry was created behind the first.
C7_Witness ==
    /\ lastOp[1] = "create"
    /\ Len(problems) = Len(DEFAULT_PROBLEMS) + 2
    /\ activeId = problems[Len(problems)].id

\* C8: delete of a custom entry removes it; if it was Active, activeId becomes
\* the id of the first remaining entry, which is the first built-in;
\* otherwise activeId is unchanged.
C8_DeleteMovesSelection ==
    [][\A i \in 1..Len(problems) :
          (problems[i].isCustom /\ HandleDelete(problems[i].id)) =>
              /\ Holders(problems', problems[i].id) = {}
              /\ Len(problems') < Len(problems)
              /\ IF activeId = problems[i].id
                 THEN /\ activeId' = problems'[1].id
                      /\ activeId' = BuiltinIds[1]
                 ELSE activeId' = activeId]_vars

\* C8 witness: the Active custom entry was deleted while another custom entry
\* stays listed, and the first built-in is Active.
C8_Witness ==
    /\ lastOp = Op("delete", "active")
    /\ Len(problems) > Len(DEFAULT_PROBLEMS)
    /\ activeId = BuiltinIds[1]

\* C9: when ProblemsView mounts, the catalog is the three built-ins in their
\* fixed order followed by the persisted custom entries in persisted order,
\* and activeId is the id of the first built-in.
C9_InitialCatalog ==
    [][ShowProblems =>
          /\ Len(problems') = 3 + Len(PersistedEntries(problemsStore))
          /\ [i \in 1..3 |-> problems'[i].id] = BuiltinIds
          /\ \A i \in 1..3 : ~problems'[i].isCustom
          /\ SubSeq(problems', 4, Len(problems')) = PersistedEntries(problemsStore)
          /\ activeId' = problems'[1].id]_vars

\* C9 witness: the view has mounted from a key that held one custom entry.
C9_Witness ==
    /\ lastOp = Op("showProblems", "json")
    /\ Len(problems) = 4
    /\ problems[4].isCustom
    /\ activeId = BuiltinIds[1]

\* C10 (as claimed): after a click on any listed entry, the Active one
\* included, the input value is the defaultVal of that entry.
C10_SelectResetsInput ==
    [][\A i \in 1..Len(problems) :
          Select(i) => inputValue' = problems[i].range.defaultVal]_vars

\* C10 (amended): after a click on a listed entry whose id is not the
\* activeId, the input value is the defaultVal of that entry; a click on an
\* entry whose id is the activeId leaves the input value as it was.
C10_SwitchResetsInput ==
    [][\A i \in 1..Len(problems) :
          Select(i) =>
              IF problems[i].id # activeId
              THEN inputValue' = problems[i].range.defaultVal
              ELSE inputValue' = inputValue]_vars

\* C10 witness: the second built-in was clicked and the input value is its
\* defaultVal, which is not that of any other entry.
C10_Witness ==
    /\ lastOp = Op("select", "snowball")
    /\ activeId = "snowball"
    /\ inputValue = 500

-----------------------------------------------------------------------------
(* Properties of the create dialog *)

\* the draft has no title: the field is absent or the empty string
NoTitle(d) == "title" \notin DOMAIN d \/ d.title = ""

\* the entry at the end of the catalog
LastEntry(ps) == ps[Len(ps)]

\* the names of the numeric parameters of a scenario
ParamNames == {"slope", "intercept", "base", "initial", "slope2", "intercept2"}

\* the draft d holds a number for parameter f
Supplied(d, f) ==
    "params" \in DOMAIN d /\ f \in DOMAIN d.params /\ ~d.params[f].nan

\* C11: right after create the created entry is the Active one (a select of
\* its id changes nothing), and its family, title, every parameter the draft
\* holds a number for (0 included) and the supplied range maximum equal the
\* values of the draft.
C11_CreateRoundTrip ==
    (ProblemsMounted /\ ~crashed /\ lastOp[1] = "create") =>
        LET e == ActiveProblem(problems, activeId)
        IN /\ e.id = lastOp[2]
           /\ e.type = newProblem.type
           /\ (~NoTitle(newProblem) => e.title = newProblem.title)
           /\ \A f \in ParamNames :
                  Supplied(newProblem, f) => e.params[f] = newProblem.params[f].v
           /\ (~newProblem.range.max.nan => e.range.max = newProblem.range.max.v)

\* C12: an entry created while no parameter was typed since the dialog was
\* opened has slope 1, intercept 0, base 1.1 and initial 10, and is the
\* Active entry, whatever happened before the dialog was opened.
C12_UntypedCreateDefaults ==
    (ProblemsMounted /\ ~crashed /\ lastOp[1] = "create" /\ ~typed) =>
        LET e == LastEntry(problems)
        IN /\ e.params.slope = 100
           /\ e.params.intercept = 0
           /\ e.params.base = 110
           /\ e.params.initial = 1000
           /\ activeId = e.id

\* C15 as stated: "Guardar Problema" on a draft without a title, and
\* "Cancelar", leave the catalog, activeId and the persisted subset unchanged.
C15_NoTitleAbandoned ==
    [][((HandleAddProblem /\ NoTitle(newProblem)) \/ CloseModal)
          => UNCHANGED <<problems, activeId, problemsStore>>]_vars

\* C15 amended: "Guardar Problema" on a draft without a title appends one
\* custom entry titled 'Nuevo Problema', makes its id the activeId and
\* persists the custom subset; "Cancelar" leaves the catalog, activeId and
\* the persisted subset unchanged.
C15_NoTitleDefaults ==
    [][/\ (HandleAddProblem /\ NoTitle(newProblem)) =>
             /\ Len(problems') = Len(problems) + 1
             /\ SubSeq(problems', 1, Len(problems)) = problems
             /\ LastEntry(problems').title = "Nuevo Problema"
             /\ LastEntry(problems').isCustom
             /\ activeId' = LastEntry(problems').id
             /\ PersistedEntries(problemsStore') = OnlyCustom(problems')
       /\ CloseModal => UNCHANGED <<problems, activeId, problemsStore>>]_vars

\* a create on a draft whose title was never typed has happened
C15_Witness ==
    /\ ProblemsMounted
    /\ lastOp[1] = "create"
    /\ NoTitle(newProblem)
    /\ LastEntry(problems).title = "Nuevo Problema"
    /\ activeId = LastEntry(problems).id

-----------------------------------------------------------------------------
(* Properties of the scenario sampler *)

\* the scenario p is of an exponential family with a base that is not positive
NonPositiveBase(p) == TypeIncludes(p.type, "exponential") /\ p.params.base <= 0

\* C18: while the Active scenario is exponential with a non-positive base,
\* the scenario sampler emits no point and the value at the input is not a
\* number.
C18_NonPositiveBaseUndefined ==
    (ProblemsMounted /\ ~crashed /\ NonPositiveBase(ActiveProblem(problems, activeId))) =>
        /\ Data(ActiveProblem(problems, activeId)) = <<>>
        /\ CurrentCalc(ActiveProblem(problems, activeId), inputValue).val1.t
              \in {"NaN", "undefined"}

-----------------------------------------------------------------------------
(* Properties of the saved simulations *)

\* the set of the elements of a sequence
Range(seq) == {seq[i] : i \in 1..Len(seq)}

\* the list without its i-th entry
WithoutIndex(list, i) == SubSeq(list, 1, i - 1) \o SubSeq(list, i + 1, Len(list))

\* C13: a confirmed delete of the i-th saved simulation removes that entry
\* and no other, the rest keeping their order; a declined delete leaves the
\* list unchanged.
C13_DeleteRemovesOne ==
    [][\A i \in 1..(MaxSaved + 1) :
          /\ SimDeleteClick(i, TRUE) =>
                savedSimulations' = WithoutIndex(savedSimulations, i)
          /\ SimDeleteClick(i, FALSE) =>
                UNCHANGED <<savedSimulations, simStore>>]_vars

\* every saved simulation has a name
AllNamed(sims) == \A i \in 1..Len(sims) : sims[i].name # ""

\* C14: handleSave with a cancelled or empty prompt leaves the list and the
\* persisted value unchanged, and every saved simulation, in the list and in
\* the persisted value, has a non-empty name.
C14_UnnamedSaveAbandoned ==
    /\ [](AllNamed(savedSimulations) /\ AllNamed(PersistedEntries(simStore)))
    /\ [][\A answer \in {PromptNull, PromptText("")} :
             SimHandleSave(answer) => UNCHANGED <<savedSimulations, simStore>>]_vars

\* a save was abandoned while the list held an entry
C14_Witness ==
    /\ currentView = "simulator"
    /\ lastOp = Op("save", "abandoned")
    /\ savedSimulations # <<>>

-----------------------------------------------------------------------------
(* Properties of the simulator's sampler *)

\* the points SimulatorView draws in the current state
CurrentSimData == SimData(activeTab, linear, quadratic, exponential, range)

\* y is a finite number with |y| < 200
FiniteBelow200(y) ==
    \/ y.t = "micro" /\ y.v > -200000000 /\ y.v < 200000000
    \/ y.t = "exp" /\ ExpBelow(y.k, y.base, y.x, 200)

\* C16: every point the simulator's sampler emits has a finite y with
\* |y| < 200, whatever the tab, the parameters and the range.
C16_EmittedWithinBounds ==
    currentView = "simulator" =>
        LET data == CurrentSimData
        IN \A i \in 1..Len(data) : FiniteBelow200(data[i].y)

\* some points were emitted and some filtered out
C16_Witness ==
    /\ currentView = "simulator"
    /\ activeTab = "exponential"
    /\ exponential.base = 400
    /\ CurrentSimData # <<>>
    /\ Len(CurrentSimData) < Len(LoopXs(-Abs(range), Abs(range), 50))

\* C17: while the exponential tab is shown with a base that is not positive,
\* y is NaN at every x of the loop and the sampler emits no point.
C17_BadBaseEmitsNothing ==
    (currentView = "simulator" /\ activeTab = "exponential" /\ exponential.base <= 0) =>
        /\ \A x \in Range(LoopXs(-Abs(range), Abs(range), 50)) :
              SimY(activeTab, linear, quadratic, exponential, Round1(x)).t = "NaN"
        /\ CurrentSimData = <<>>

\* a saved simulation with a negative base was loaded
C17_Witness ==
    /\ currentView = "simulator"
    /\ activeTab = "exponential"
    /\ exponential.base < 0
    /\ lastOp = Op("load", "exponential")

-----------------------------------------------------------------------------
(* Properties of the samplers' domains *)

\* the x values of a sequence of points
Xs(points) == [i \in 1..Len(points) |-> points[i].x]

\* xs increases strictly and stays within min..max
IncreasingWithin(xs, min, max) ==
    /\ \A i \in 1..Len(xs) : xs[i] >= min /\ xs[i] <= max
    /\ \A i \in 1..(Len(xs) - 1) : xs[i] < xs[i + 1]

\* xs starts at min, ends at max and advances by step
SpansDomain(xs, min, max, step) ==
    /\ xs # <<>>
    /\ xs[1] = min
    /\ xs[Len(xs)] = max
    /\ \A i \in 1..(Len(xs) - 1) : xs[i + 1] - xs[i] = step

\* C19: the x values either sampler emits increase strictly within the
\* domain, and the x values of its loop start at the domain's minimum, end
\* at its maximum and advance by the step: for the Active scenario while
\* ProblemsView is shown, for -|range|..|range| while the simulator is shown.
C19_SamplersSpanDomain ==
    /\ (ProblemsMounted /\ ~crashed) =>
          LET p == ActiveProblem(problems, activeId)
              xs == Xs(Data(p))
          IN /\ IncreasingWithin(xs, p.range.min, p.range.max)
             /\ SpansDomain(xs, p.range.min, p.range.max, p.range.step)
    /\ currentView = "simulator" =>
          LET loop == LoopXs(-Abs(range), Abs(range), 50)
          IN /\ IncreasingWithin(Xs(CurrentSimData), -Abs(range), Abs(range))
             /\ SpansDomain([i \in 1..Len(loop) |-> Round1(loop[i])],
                            -Abs(range), Abs(range), 50)

-----------------------------------------------------------------------------
(* Properties of the quadratic analysis *)

\* the text of n/d with two decimals, n and d integers, d # 0
FixedRatio(n, d) ==
    Fixed((n < 0) # (d < 0) /\ n # 0, (2 * Abs(n) * 100 + Abs(d)) \div (2 * Abs(d)))

\* b^2 - 4ac of the current parameters, in ten-thousandths
Discriminant == quadratic.b * quadratic.b - 4 * quadratic.a * quadratic.c

\* C20: for a # 0 the analysis prints the discriminant b^2 - 4ac, the vertex
\* (-b/(2a), f(-b/(2a))) and, by the sign of the discriminant, no real
\* roots, the one root -b/(2a), or the two roots with the '+' one first; for
\* a = 1, b = -6, c = 5 these are discriminant 16, vertex (3, -4), roots 5 and 1.
C20_QuadraticAnalysis ==
    (currentView = "simulator" /\ quadratic.a # 0) =>
        LET r == GetQuadraticAnalysis(quadratic)
            a == quadratic.a
            b == quadratic.b
            c == quadratic.c
            D == Discriminant
        IN /\ r.delta = FixedRatio(D, 10000)
           /\ r.vertex[1] = FixedRatio(-b, 2 * a)
           /\ r.vertex[2] = FixedRatio(4 * a * c - b * b, 400 * a)
           /\ (D < 0 => r.roots = <<Text("No reales")>>)
           /\ (D = 0 => r.roots = <<FixedRatio(-b, 2 * a)>>)
           /\ (D > 0 => Len(r.roots) = 3 /\ r.roots[2] = Text(" y "))
           /\ ((D > 0 /\ IsSquare(D)) =>
                  /\ r.roots[1] = FixedRatio(-b + ISqrt(D), 2 * a)
                  /\ r.roots[3] = FixedRatio(-b - ISqrt(D), 2 * a))
           /\ (quadratic = InitialQuadratic =>
                  /\ r.vertex = <<Fixed(FALSE, 300), Fixed(TRUE, 400)>>
                  /\ r.delta = Fixed(FALSE, 1600)
                  /\ r.roots = <<Fixed(FALSE, 500), Text(" y "), Fixed(FALSE, 100)>>)

\* the quadratic tab shows a parabola with two roots, after one with a
\* double root was set
C20_Witness ==
    /\ currentView = "simulator"
    /\ activeTab = "quadratic"
    /\ quadratic = InitialQuadratic
    /\ lastOp[1] = "setQuadratic"
    /\ GetQuadraticAnalysis(quadratic).roots[1] = Fixed(FALSE, 500)

-----------------------------------------------------------------------------
(* Properties of the degenerate parameters *)

\* the texts a division by zero prints
DivisionByZeroTexts == {Text("Infinity"), Text("-Infinity"), Text("NaN")}

\* C21: for m = 0 the linear analysis prints 'N/A' as the root, and for
\* a = 0 the quadratic analysis prints no vertex coordinate and no root that
\* is Infinity, -Infinity or NaN.
C21_DegenerateNotApplicable ==
    currentView = "simulator" =>
        /\ (linear.m = 0 => GetLinearAnalysis(linear).root = Text("N/A"))
        /\ (quadratic.a = 0 =>
               LET r == GetQuadraticAnalysis(quadratic)
               IN (Range(r.vertex) \cup Range(r.roots)) \cap DivisionByZeroTexts = {})

\* C22 as stated: the label is the convex one for a > 0 and for a = 0, the
\* concave one for a < 0.
C22_ZeroIsConvex ==
    currentView = "simulator" =>
        GetQuadraticAnalysis(quadratic).concavity =
            (IF quadratic.a >= 0 THEN "Convexa" ELSE "Cóncava")

\* C22 amended: the label is the convex one for a > 0 and the concave one
\* for a < 0 and for a = 0.
C22_ZeroIsConcave ==
    currentView = "simulator" =>
        /\ (quadratic.a > 0 => GetQuadraticAnalysis(quadratic).concavity = "Convexa")
        /\ (quadratic.a < 0 => GetQuadraticAnalysis(quadratic).concavity = "Cóncava")
        /\ (quadratic.a = 0 => GetQuadraticAnalysis(quadratic).concavity = "Cóncava")

\* the slider of a was moved to 0 on the quadratic tab
C22_Witness ==
    /\ currentView = "simulator"
    /\ activeTab = "quadratic"
    /\ quadratic.a = 0
    /\ lastOp = Op("setQuadratic", "a")
    /\ GetQuadraticAnalysis(quadratic).concavity = "Cóncava"

-----------------------------------------------------------------------------
(* Properties of the catalog's order, lookup and remount *)

\* s is t with some entries left out, the rest in the order of t
RECURSIVE IsSubsequence(_, _)
IsSubsequence(s, t) ==
    IF s = <<>> THEN TRUE
    ELSE IF t = <<>> THEN FALSE
    ELSE IF Head(s) = Head(t) THEN IsSubsequence(Tail(s), Tail(t))
    ELSE IsSubsequence(s, Tail(t))

\* the built-in entries first and unchanged, custom entries after them
BuiltinsFirst(ps) ==
    /\ Len(ps) >= Len(DEFAULT_PROBLEMS)
    /\ SubSeq(ps, 1, Len(DEFAULT_PROBLEMS)) = DEFAULT_PROBLEMS
    /\ \A i \in (Len(DEFAULT_PROBLEMS) + 1)..Len(ps) : ps[i].isCustom

\* C23: the catalog of a mounted ProblemsView is the three built-in entries,
\* unchanged and in their order, followed by custom entries; a mount puts
\* the persisted entries after the built-ins in persisted order, and every
\* other step leaves the surviving entries in their order, a new entry
\* going to the end.
C23_CatalogOrder ==
    /\ []((ProblemsMounted /\ ~crashed) => BuiltinsFirst(problems))
    /\ [][(ProblemsMounted /\ ProblemsMounted' /\ ~crashed') =>
             \/ IsSubsequence(problems', problems)
             \/ /\ Len(problems') = Len(problems) + 1
                /\ SubSeq(problems', 1, Len(problems)) = problems]_vars
    /\ [][(~ProblemsMounted /\ ProblemsMounted' /\ ~crashed') =>
             problems' = DEFAULT_PROBLEMS \o PersistedEntries(problemsStore)]_vars

\* an entry was deleted and a custom entry created after it survives
C23_Witness ==
    /\ ProblemsMounted
    /\ lastOp[1] = "delete"
    /\ Len(problems) = Len(DEFAULT_PROBLEMS) + 1
    /\ problems[Len(problems)].id = CustomId(1)

\* ids looked up in the catalog: those of entries that were or may be there
ProbeIds == {"", "unknown"} \cup {CustomId(n) : n \in 0..MaxClock}

\* C24: the active scenario a mounted ProblemsView resolves is an entry of
\* its catalog, and the lookup of any id that matches no entry resolves to
\* the first entry of the catalog.
C24_LookupFallsBackToFirst ==
    (ProblemsMounted /\ ~crashed) =>
        /\ problems # <<>>
        /\ ActiveProblem(problems, activeId) \in Range(problems)
        /\ \A id \in ProbeIds :
              Holders(problems, id) = {} => ActiveProblem(problems, id) = problems[1]

\* the entry custom_0 was deleted: its id now matches no entry
C24_Witness ==
    /\ ProblemsMounted
    /\ lastOp[1] = "delete"
    /\ Holders(problems, CustomId(0)) = {}
    /\ Len(problems) > Len(DEFAULT_PROBLEMS)
    /\ ActiveProblem(problems, CustomId(0)) = problems[1]

\* C25: when ProblemsView is left, the persisted entries are the custom
\* entries of its catalog, which is the built-ins followed by them; nothing
\* changes the persisted value while the view is away; and the mount that
\* follows makes the catalog the built-ins followed by the persisted
\* entries, activeId the first built-in and the input value its default.
C25_RemountRestoresCatalog ==
    [][/\ (ProblemsMounted /\ ~ProblemsMounted') =>
             /\ problemsStore' = problemsStore
             /\ problems = DEFAULT_PROBLEMS \o PersistedEntries(problemsStore)
       /\ (~ProblemsMounted /\ ~ProblemsMounted') => problemsStore' = problemsStore
       /\ (~ProblemsMounted /\ ProblemsMounted' /\ problemsStore.kind = "json") =>
             /\ problems' = DEFAULT_PROBLEMS \o PersistedEntries(problemsStore)
             /\ activeId' = DEFAULT_PROBLEMS[1].id
             /\ inputValue' = DEFAULT_PROBLEMS[1].range.defaultVal]_vars

\* ProblemsView was mounted again with an entry created before it was left
C25_Witness ==
    /\ ProblemsMounted
    /\ lastOp = Op("showProblems", "json")
    /\ Holders(problems, CustomId(1)) # {}
    /\ activeId = "car_rental"

-----------------------------------------------------------------------------
(* Properties of the simulator's mount and of save followed by load *)

\* the key holds a non-empty list
HoldsSimulations(item) == item.kind = "json" /\ item.value # <<>>

\* C26: the step that mounts SimulatorView over a key holding a non-empty
\* list does not leave the key holding the empty list, and the re-render
\* that follows makes savedSimulations the list the key held.
C26_MountKeepsPersisted ==
    [][/\ (currentView # "simulator" /\ currentView' = "simulator" /\ HoldsSimulations(simStore))
            => HoldsSimulations(simStore')
       /\ (simPending.set /\ ~simPending'.set) => savedSimulations' = simPending.value]_vars

\* the function parameters by family
Family == [linear |-> linear, quadratic |-> quadratic, exponential |-> exponential]
FamilyAfter == [linear |-> linear', quadratic |-> quadratic', exponential |-> exponential']

\* C27: a save appends an entry holding the active family and that family's
\* current parameter record; no step changes an entry of the saved list
\* (a delete removes entries, a save appends one, a mount brings back the
\* persisted list, which is the list of the last render); and loading the
\* i-th entry makes its family the active one and its record that family's
\* parameters, leaving the other families' parameters, the range and the
\* saved list as they were.
C27_SaveThenLoadRestores ==
    /\ [](SimReady => simStore = JSONstringify(savedSimulations))
    /\ [][SimHandleSave(PromptText("Caso 2")) =>
             /\ Len(savedSimulations') = Len(savedSimulations) + 1
             /\ SubSeq(savedSimulations', 1, Len(savedSimulations)) = savedSimulations
             /\ savedSimulations'[Len(savedSimulations')].type = activeTab
             /\ savedSimulations'[Len(savedSimulations')].params = Family[activeTab]
             /\ simParams' = simParams]_vars
    /\ [][(SimReady /\ SimReady') =>
             \/ IsSubsequence(savedSimulations', savedSimulations)
             \/ SubSeq(savedSimulations', 1, Len(savedSimulations)) = savedSimulations]_vars
    /\ [][(simPending.set /\ ~simPending'.set) =>
             savedSimulations' = simPending.value]_vars
    /\ [][(currentView # "simulator" /\ currentView' = "simulator") =>
             simPending' = LoadedSimulations(simStore)]_vars
    /\ [][(~SimReady /\ ~SimReady' /\ currentView' # "simulator") =>
             simStore' = simStore]_vars
    /\ [][\A i \in 1..(MaxSaved + 1) : SimLoadClick(i) =>
             /\ activeTab' = savedSimulations[i].type
             /\ FamilyAfter[activeTab'] = savedSimulations[i].params
             /\ \A t \in Tabs \ {activeTab'} : FamilyAfter[t] = Family[t]
             /\ range' = range
             /\ savedSimulations' = savedSimulations
             /\ simStore' = simStore]_vars

\* an entry saved on the quadratic tab was loaded after the parameter and
\* the tab had been changed, and the view shows what the entry holds
C27_Witness ==
    /\ SimReady
    /\ lastOp = Op("load", "quadratic")
    /\ quadratic.a = 200
    /\ linear.m = -300
    /\ \E i \in 1..Len(savedSimulations) :
          /\ savedSimulations[i].type = "quadratic"
          /\ savedSimulations[i].params = quadratic
          /\ savedSimulations[i].name = "Caso 2"

-----------------------------------------------------------------------------
(* Properties of the report's tables *)

\* what the last generatePDF produced
Report == lastOp[2]

\* C28: generatePDF ends for every catalog the create dialog can produce,
\* and the table of each scenario has at most 6 rows, the x of each row
\* being the x of a point of the scenario's sample data.
C28_TablesSampleTheData ==
    (ProblemsMounted /\ lastOp[1] = "generatePDF") =>
        /\ Report.done
        /\ ~crashed
        /\ Len(Report.tables) = Len(problems)
        /\ \A i \in 1..Len(problems) :
              /\ Len(Report.tables[i]) <= 6
              /\ \A r \in 1..Len(Report.tables[i]) :
                    Report.tables[i][r].x \in Range(Xs(Data(problems[i])))

\* a report over the built-ins, a custom scenario with max 2.5 and one with
\* max -3: six rows, three rows and no row
C28_Witness ==
    /\ ProblemsMounted
    /\ lastOp[1] = "generatePDF"
    /\ Report.done
    /\ Len(Report.tables[1]) = 6
    /\ \E i, j \in 1..Len(problems) :
          /\ problems[i].isCustom /\ problems[i].range.max = 250
          /\ Len(Report.tables[i]) = 3
          /\ problems[j].isCustom /\ problems[j].range.max = -300
          /\ Len(Report.tables[j]) = 0

====
